---- MODULE Spec2Model ----
(***************************************************************************)
(* Escrow project lifecycle of project-gallery-backend: the EscrowProject  *)
(* state machine of src/routes/escrow.js, the Transaction ledger, the      *)
(* WorkerReview collection and the worker's UserCard aggregate; and the    *)
(* signup verification of src/routes/presence.js with its otpStore.        *)
(*                                                                         *)
(* Nullable values are options: <<>> is null/undefined, <<v>> is v.        *)
(* Dates are readings of a logical clock (>= 1); NoDate is a null date.    *)
(* The notifications collection is a bag of documents.                     *)
(* Strings that the code trims are sequences of one-character strings.     *)
(* Amounts are whole numbers: for every whole total in -200..20000 the     *)
(* double-precision products total*0.1, total*0.9 and total*(5/100) round  *)
(* (Math.round) to the same integer as the exact rationals do.             *)
(***************************************************************************)
EXTENDS Integers, Sequences, FiniteSets, Bags, TLC

VARIABLES projects, ledger, reviews, notifications, cards, clock, resp, inflight,
          otpStore, users

vars == <<projects, ledger, reviews, notifications, cards, clock, resp, inflight,
          otpStore, users>>

db == <<projects, ledger, reviews, notifications, cards>>

(***************************************************************************)
(* Bounds of the model.                                                    *)
(***************************************************************************)
MaxProjects == 1

MaxProjectsAgg == 2

MaxFinalPayments == 2

MaxInflight == 2

MaxRequestsRace == 7

MaxFinalsList == 202

MaxWritesFail == 3

\* the number of requests accepted when two projects are rated concurrently
MaxRequestsRaceAgg == 12

\* the readings of the clock while codes are sent and used
MaxClockOtp == 4

(***************************************************************************)
(* Values.                                                                 *)
(***************************************************************************)
None == <<>>

Some(v) == <<v>>

IsSet(o) == o # None

Val(o) == o[1]

NoDate == 0

Users == {"u1", "u2", "u3"}

\* request bodies the model draws from
TitleInputs == {None, Some(<<" ", " ">>), Some(<<" ", "a", " ">>)}

BudgetInputs == {None, Some(0), Some(-5), Some(5), Some(10000)}

DeadlineInputs == {None, Some(7)}

\* the (client, worker) pairs offers are sent for: another user, or the client itself
OfferPairs == {<<"u1", "u2">>, <<"u1", "u1">>, <<"u3", "u2">>}

OfferPairsAgg == {<<"u1", "u2">>, <<"u1", "u3">>}

AgreedBudgetInputs == {None, Some(0), Some(-5), Some(15)}

AgreedDeadlineInputs == {Some(9)}

ProgressInputs == {Some(-10), Some(30), Some(150)}

MilestoneInputs == {Some(<<"m1">>)}

RatingInputs == {None, Some(0), Some(1), Some(5), Some(6)}

RatingInputsAgg == {Some(2), Some(5)}

OfferPairsRace == {<<"u1", "u2">>}

OfferPairsRaceAgg == {<<"u1", "u2">>, <<"u3", "u2">>}

OfferPairsList == {<<"u1", "u2">>, <<"u1", "u1">>}

AgreedBudgetInputsRace == {None, Some(15)}

(***************************************************************************)
(* JavaScript operators used by the handlers.                              *)
(***************************************************************************)
\* a ?? b on an optional left operand
Coalesce(a, b) == IF IsSet(a) THEN Val(a) ELSE b

\* a || b on an optional number: null, undefined and 0 are falsy
OrElse(a, b) == IF IsSet(a) /\ Val(a) # 0 THEN Val(a) ELSE b

\* s || '' on an optional string
StrOrEmpty(o) == IF IsSet(o) THEN Val(o) ELSE <<>>

\* !x on an optional number
Falsy(o) == ~IsSet(o) \/ Val(o) = 0

\* Math.round(num / den), den > 0: the nearest integer, halves toward +infinity
MathRound(num, den) == (2 * num + den) \div (2 * den)

\* String.prototype.trim on a sequence of characters
RECURSIVE TrimLeft(_)
TrimLeft(s) == IF s # <<>> /\ Head(s) = " " THEN TrimLeft(Tail(s)) ELSE s

RECURSIVE TrimRight(_)
TrimRight(s) == IF s # <<>> /\ s[Len(s)] = " " THEN TrimRight(SubSeq(s, 1, Len(s) - 1)) ELSE s

Trim(s) == TrimRight(TrimLeft(s))

\* no clamping
ClampMut(n) == n

\* Math.min(100, Math.max(0, n))
Clamp(n) == IF n < 0 THEN 0 ELSE IF n > 100 THEN 100 ELSE n

(***************************************************************************)
(* Documents.                                                              *)
(***************************************************************************)
DefaultCommissionPercent == 5

\* EscrowProject.create of POST /projects with the schema defaults
NewProject(actor, workerId, title, budget, deadline) ==
  [ clientId |-> actor,
    workerId |-> workerId,
    chatWithUserId |-> workerId,
    title |-> Trim(title),
    description |-> <<>>,
    budget |-> budget,
    deadline |-> deadline,
    agreedBudget |-> None,
    agreedDeadline |-> NoDate,
    agreedTimeline |-> <<>>,
    lockedAt |-> NoDate,
    status |-> "offer_sent",
    progressPercent |-> 0,
    milestones |-> <<>>,
    advancePaidAt |-> NoDate,
    advanceAmount |-> 0,
    finalPaidAt |-> NoDate,
    finalAmount |-> 0,
    platformCommissionPercent |-> DefaultCommissionPercent,
    platformCommissionAmount |-> 0,
    workerPayoutAmount |-> 0,
    workerPayoutAt |-> NoDate,
    rating |-> None,
    review |-> <<>>,
    ratedAt |-> NoDate,
    cancelledBy |-> None,
    cancelReason |-> <<>>,
    cancelledAt |-> NoDate ]

\* Transaction.create
Txn(pid, type, amount, from, to, at) ==
  [ escrowProjectId |-> pid, type |-> type, amount |-> amount,
    fromUserId |-> from, toUserId |-> to, status |-> "completed", createdAt |-> at ]

\* Notification.create of createNotification
Notif(userId, type, pid) == [ userId |-> userId, type |-> type, escrowProjectId |-> pid ]

\* WorkerReview.create
Review(workerId, clientId, pid, rating) ==
  [ workerId |-> workerId, clientId |-> clientId, escrowProjectId |-> pid, rating |-> rating ]

\* a UserCard before any review: rating 0, ratingCount 0
NewCard == [ rating |-> [ num |-> 0, den |-> 1 ], ratingCount |-> 0 ]

\* the users who have published a profile card
CardHolders == {"u2"}

Response(op, code) == [ op |-> op, code |-> code ]

\* const otpStore = new Map()
NoOtps == [ k \in {} |-> <<>> ]

(***************************************************************************)
(* The handlers' decisions and document updates, as functions of the       *)
(* document read by findById (p), the authenticated actor and the body.    *)
(* A check yields the HTTP status the handler answers with (200: go on).   *)
(***************************************************************************)
\* the commands of the project's worker and those of its client
WorkerOps == {"accept", "reject", "progress-update", "complete"}

ClientOps == {"advance-payment", "final-payment", "rate"}

\* project.workerId.toString() !== req.user._id.toString()
IsWorker(p, actor) == p.workerId = actor

\* any participant of the project passes the client check
IsClientMut(p, actor) == actor \in {p.clientId, p.workerId}

\* project.clientId.toString() !== req.user._id.toString()
IsClient(p, actor) == p.clientId = actor

\* document.save(): only the paths whose value was changed since the read are written
Save(stored, snap, doc) ==
  [ f \in DOMAIN stored |-> IF doc[f] # snap[f] THEN doc[f] ELSE stored[f] ]

\* validation without the test budget <= 0
CreateCheckMut(body) ==
  IF \/ ~IsSet(body.workerId)
     \/ ~IsSet(body.title) \/ Trim(Val(body.title)) = <<>>
     \/ Falsy(body.budget)
     \/ ~IsSet(body.deadline)
  THEN 400 ELSE 201

\* POST /projects: validation of the body
CreateCheck(body) ==
  IF \/ ~IsSet(body.workerId)
     \/ ~IsSet(body.title) \/ Trim(Val(body.title)) = <<>>
     \/ Falsy(body.budget) \/ Val(body.budget) <= 0
     \/ ~IsSet(body.deadline)
  THEN 400 ELSE 201

\* POST /projects/:id/accept
AcceptCheck(p, actor) ==
  IF ~IsWorker(p, actor) THEN 403
  ELSE IF p.status # "offer_sent" THEN 400
  ELSE 200

\* accept that stores the agreed budget as the budget
AcceptDocMut(p, body, now) ==
  [ p EXCEPT !.budget = Coalesce(body.agreedBudget, p.budget),
             !.agreedBudget = Some(Coalesce(body.agreedBudget, p.budget)),
             !.agreedDeadline = Coalesce(body.agreedDeadline, p.deadline),
             !.agreedTimeline = Trim(StrOrEmpty(body.agreedTimeline)),
             !.lockedAt = now,
             !.status = "accepted" ]

AcceptDoc(p, body, now) ==
  [ p EXCEPT !.agreedBudget = Some(Coalesce(body.agreedBudget, p.budget)),
             !.agreedDeadline = Coalesce(body.agreedDeadline, p.deadline),
             !.agreedTimeline = Trim(StrOrEmpty(body.agreedTimeline)),
             !.lockedAt = now,
             !.status = "accepted" ]

\* reject without the test of the status
RejectCheckMut(p, actor) == IF ~IsWorker(p, actor) THEN 403 ELSE 200

\* POST /projects/:id/reject
RejectCheck(p, actor) ==
  IF ~IsWorker(p, actor) THEN 403
  ELSE IF p.status # "offer_sent" THEN 400
  ELSE 200

\* reject that stores the status cancelled
RejectDocMut(p) == [ p EXCEPT !.status = "cancelled" ]

RejectDoc(p) == [ p EXCEPT !.status = "rejected" ]

\* const total = project.agreedBudget || project.budget
Total(p) == OrElse(p.agreedBudget, p.budget)

\* Math.round(total * 0.1)
AdvanceOf(total) == MathRound(total, 10)

\* Math.round(total * 0.9)
FinalOf(total) == MathRound(total * 9, 10)

\* project.platformCommissionPercent || 5
CommissionPercent(p) == IF p.platformCommissionPercent # 0 THEN p.platformCommissionPercent ELSE 5

\* Math.round(total * (commissionPercent / 100))
CommissionOf(total, percent) == MathRound(total * percent, 100)

\* POST /projects/:id/advance-payment
AdvanceCheck(p, actor) ==
  IF ~IsClient(p, actor) THEN 403
  ELSE IF p.status \notin {"accepted", "pending_advance"} THEN 400
  ELSE 200

AdvanceTxn(p, pid, actor, now) ==
  Txn(pid, "advance_payment", AdvanceOf(Total(p)), Some(actor), None, now)

\* advance-payment that does not record the date of the payment
AdvanceDocMut(p, now) ==
  [ p EXCEPT !.advanceAmount = AdvanceOf(Total(p)),
             !.status = "in_progress",
             !.progressPercent = 50 ]

AdvanceDoc(p, now) ==
  [ p EXCEPT !.advanceAmount = AdvanceOf(Total(p)),
             !.advancePaidAt = now,
             !.status = "in_progress",
             !.progressPercent = 50 ]

\* PATCH /projects/:id/progress
ProgressCheck(p, actor) == IF ~IsWorker(p, actor) THEN 403 ELSE 200

\* progress-update that adds the percentage to the stored one
ProgressDocMut(p, body) ==
  [ p EXCEPT !.progressPercent =
               IF IsSet(body.progressPercent) THEN Clamp(@ + Val(body.progressPercent)) ELSE @,
             !.milestones = IF IsSet(body.milestones) THEN Val(body.milestones) ELSE @ ]

ProgressDoc(p, body) ==
  [ p EXCEPT !.progressPercent =
               IF IsSet(body.progressPercent) THEN Clamp(Val(body.progressPercent)) ELSE @,
             !.milestones = IF IsSet(body.milestones) THEN Val(body.milestones) ELSE @ ]

\* complete without the test of the status
CompleteCheckMut(p, actor) == IF ~IsWorker(p, actor) THEN 403 ELSE 200

\* POST /projects/:id/complete
CompleteCheck(p, actor) ==
  IF ~IsWorker(p, actor) THEN 403
  ELSE IF p.status \notin {"in_progress", "mid_level"} THEN 400
  ELSE 200

CompleteDoc(p) == [ p EXCEPT !.status = "completed", !.progressPercent = 100 ]

\* POST /projects/:id/final-payment
FinalCheck(p, actor) ==
  IF ~IsClient(p, actor) THEN 403
  ELSE IF p.status # "completed" THEN 400
  ELSE 200

FinalTxn(p, pid, actor, now) ==
  Txn(pid, "final_payment", FinalOf(Total(p)), Some(actor), None, now)

FinalDoc(p, now) ==
  [ p EXCEPT !.finalAmount = FinalOf(Total(p)), !.finalPaidAt = now ]

\* POST /projects/:id/rate
RatingValid(rating) == ~(Falsy(rating) \/ Val(rating) < 1 \/ Val(rating) > 5)

\* rate without the test that the final payment was made
RateCheckMut(p, actor, body) ==
  IF ~IsClient(p, actor) THEN 403
  ELSE IF p.status # "completed" THEN 400
  ELSE IF ~RatingValid(body.rating) THEN 400
  ELSE 200

RateCheck(p, actor, body) ==
  IF ~IsClient(p, actor) THEN 403
  ELSE IF p.status # "completed" \/ p.finalPaidAt = NoDate THEN 400
  ELSE IF ~RatingValid(body.rating) THEN 400
  ELSE 200

\* the error message with the rating tested before the status
RateErrorMut(p, actor, body) ==
  IF ~IsClient(p, actor) THEN "Not authorized"
  ELSE IF ~RatingValid(body.rating) THEN "Rating 1-5 required"
  ELSE IF p.status # "completed" \/ p.finalPaidAt = NoDate THEN "Rate only after final payment"
  ELSE "none"

\* the error message of POST /projects/:id/rate on a stored project
RateError(p, actor, body) ==
  IF ~IsClient(p, actor) THEN "Not authorized"
  ELSE IF p.status # "completed" \/ p.finalPaidAt = NoDate THEN "Rate only after final payment"
  ELSE IF ~RatingValid(body.rating) THEN "Rating 1-5 required"
  ELSE "none"

RateReview(p, pid, actor, body) == Review(p.workerId, actor, pid, Val(body.rating))

RateDoc(p, body, now) ==
  [ p EXCEPT !.rating = Some(Val(body.rating)),
             !.review = Trim(StrOrEmpty(body.review)),
             !.ratedAt = now,
             !.platformCommissionAmount = CommissionOf(Total(p), CommissionPercent(p)),
             !.workerPayoutAmount = Total(p) - CommissionOf(Total(p), CommissionPercent(p)),
             !.workerPayoutAt = now,
             !.status = "completed_released" ]

CommissionTxn(doc, pid, now) ==
  Txn(pid, "platform_commission", doc.platformCommissionAmount, None, None, now)

PayoutTxn(doc, pid, now) ==
  Txn(pid, "worker_payout", doc.workerPayoutAmount, None, Some(doc.workerId), now)

RECURSIVE SumRatings(_, _)
SumRatings(rs, n) == IF n = 0 THEN 0 ELSE rs[n].rating + SumRatings(rs, n - 1)

\* the reviews of every worker instead of those of w
WorkerSeqMut(rs, w) == rs

\* WorkerReview.find({ workerId })
WorkerSeq(rs, w) == SelectSeq(rs, LAMBDA r : r.workerId = w)

RECURSIVE Gcd(_, _)
Gcd(a, b) == IF b = 0 THEN a ELSE Gcd(b, a % b)

\* the number sum / n, kept as a fraction in lowest terms
Quotient(sum, n) == [ num |-> sum \div Gcd(sum, n), den |-> n \div Gcd(sum, n) ]

\* card.rating = reviews.length ? sum / reviews.length : 0; card.ratingCount = reviews.length
Aggregate(rs, w) ==
  LET mine == WorkerSeq(rs, w)
      n == Len(mine)
  IN  [ rating |-> IF n # 0 THEN Quotient(SumRatings(mine, n), n) ELSE Quotient(0, 1),
        ratingCount |-> n ]

\* if (card) { ...; await card.save() }
UpdateCard(cs, rs, w) == IF IsSet(cs[w]) THEN [ cs EXCEPT ![w] = Some(Aggregate(rs, w)) ] ELSE cs

(***************************************************************************)
(* Requests processed one at a time: each handler runs from its findById   *)
(* to its response without another request in between.                     *)
(***************************************************************************)
Init ==
  /\ projects = <<>>
  /\ ledger = <<>>
  /\ reviews = <<>>
  /\ notifications = EmptyBag
  /\ cards = [ u \in Users |-> IF u \in CardHolders THEN Some(NewCard) ELSE None ]
  /\ clock = 1
  /\ resp = Response("none", 0)
  /\ inflight = <<>>
  /\ otpStore = NoOtps
  /\ users = {}

\* an error response: nothing is written
Fail(op, code) ==
  /\ resp' = Response(op, code)
  /\ UNCHANGED <<projects, ledger, reviews, notifications, cards, clock, inflight, otpStore, users>>

Known(pid) == pid \in DOMAIN projects

CountTxns(pid, type) ==
  Cardinality({ i \in DOMAIN ledger : ledger[i].escrowProjectId = pid /\ ledger[i].type = type })

CreateOffer(actor, body, maxProjects) ==
  /\ inflight = <<>>
  /\ IF CreateCheck(body) # 201 THEN Fail("create", CreateCheck(body))
     ELSE /\ Len(projects) < maxProjects
          /\ projects' = Append(projects,
                                NewProject(actor, Val(body.workerId), Val(body.title),
                                           Val(body.budget), Val(body.deadline)))
          /\ notifications' =
               notifications (+) SetToBag({Notif(Val(body.workerId), "project_offer", Len(projects) + 1)})
          /\ resp' = Response("create", 201)
          /\ UNCHANGED <<ledger, reviews, cards, clock, inflight, otpStore, users>>

Accept(actor, pid, body) ==
  /\ inflight = <<>>
  /\ IF ~Known(pid) THEN Fail("accept", 404)
     ELSE LET p == projects[pid] IN
          IF AcceptCheck(p, actor) # 200 THEN Fail("accept", AcceptCheck(p, actor))
          ELSE /\ projects' = [ projects EXCEPT ![pid] = Save(p, p, AcceptDoc(p, body, clock)) ]
               /\ clock' = clock + 1
               /\ notifications' =
                    notifications (+) SetToBag({Notif(p.clientId, "project_accepted", pid)})
               /\ resp' = Response("accept", 200)
               /\ UNCHANGED <<ledger, reviews, cards, inflight, otpStore, users>>

Reject(actor, pid) ==
  /\ inflight = <<>>
  /\ IF ~Known(pid) THEN Fail("reject", 404)
     ELSE LET p == projects[pid] IN
          IF RejectCheck(p, actor) # 200 THEN Fail("reject", RejectCheck(p, actor))
          ELSE /\ projects' = [ projects EXCEPT ![pid] = Save(p, p, RejectDoc(p)) ]
               /\ notifications' =
                    notifications (+) SetToBag({Notif(p.clientId, "project_rejected", pid)})
               /\ resp' = Response("reject", 200)
               /\ UNCHANGED <<ledger, reviews, cards, clock, inflight, otpStore, users>>

AdvancePayment(actor, pid) ==
  /\ inflight = <<>>
  /\ IF ~Known(pid) THEN Fail("advance-payment", 404)
     ELSE LET p == projects[pid] IN
          IF AdvanceCheck(p, actor) # 200 THEN Fail("advance-payment", AdvanceCheck(p, actor))
          ELSE /\ ledger' = Append(ledger, AdvanceTxn(p, pid, actor, clock))
               /\ projects' = [ projects EXCEPT ![pid] = Save(p, p, AdvanceDoc(p, clock + 1)) ]
               /\ clock' = clock + 2
               /\ notifications' =
                    notifications (+) SetToBag({Notif(p.workerId, "advance_paid", pid)})
               /\ resp' = Response("advance-payment", 200)
               /\ UNCHANGED <<reviews, cards, inflight, otpStore, users>>

ProgressUpdate(actor, pid, body) ==
  /\ inflight = <<>>
  /\ IF ~Known(pid) THEN Fail("progress-update", 404)
     ELSE LET p == projects[pid] IN
          IF ProgressCheck(p, actor) # 200 THEN Fail("progress-update", ProgressCheck(p, actor))
          ELSE /\ projects' = [ projects EXCEPT ![pid] = Save(p, p, ProgressDoc(p, body)) ]
               /\ resp' = Response("progress-update", 200)
               /\ UNCHANGED <<ledger, reviews, notifications, cards, clock, inflight, otpStore, users>>

Complete(actor, pid) ==
  /\ inflight = <<>>
  /\ IF ~Known(pid) THEN Fail("complete", 404)
     ELSE LET p == projects[pid] IN
          IF CompleteCheck(p, actor) # 200 THEN Fail("complete", CompleteCheck(p, actor))
          ELSE /\ projects' = [ projects EXCEPT ![pid] = Save(p, p, CompleteDoc(p)) ]
               /\ notifications' =
                    notifications (+) SetToBag({Notif(p.clientId, "final_payment_required", pid)})
               /\ resp' = Response("complete", 200)
               /\ UNCHANGED <<ledger, reviews, cards, clock, inflight, otpStore, users>>

FinalPaymentUpTo(actor, pid, maxFinals) ==
  /\ inflight = <<>>
  /\ IF ~Known(pid) THEN Fail("final-payment", 404)
     ELSE LET p == projects[pid] IN
          IF FinalCheck(p, actor) # 200 THEN Fail("final-payment", FinalCheck(p, actor))
          ELSE /\ CountTxns(pid, "final_payment") < maxFinals
               /\ ledger' = Append(ledger, FinalTxn(p, pid, actor, clock))
               /\ projects' = [ projects EXCEPT ![pid] = Save(p, p, FinalDoc(p, clock + 1)) ]
               /\ clock' = clock + 2
               /\ notifications' =
                    notifications (+) SetToBag({Notif(p.workerId, "final_payment_required", pid)})
               /\ resp' = Response("final-payment", 200)
               /\ UNCHANGED <<reviews, cards, inflight, otpStore, users>>

Rate(actor, pid, body) ==
  /\ inflight = <<>>
  /\ IF ~Known(pid) THEN Fail("rate", 404)
     ELSE LET p == projects[pid] IN
          IF RateCheck(p, actor, body) # 200 THEN Fail("rate", RateCheck(p, actor, body))
          ELSE LET doc == RateDoc(p, body, clock)
                   rs == Append(reviews, RateReview(p, pid, actor, body))
               IN  /\ reviews' = rs
                   /\ projects' = [ projects EXCEPT ![pid] = Save(p, p, doc) ]
                   /\ ledger' = ledger \o << CommissionTxn(doc, pid, clock + 1),
                                             PayoutTxn(doc, pid, clock + 2) >>
                   /\ cards' = UpdateCard(cards, rs, p.workerId)
                   /\ clock' = clock + 3
                   /\ notifications' =
                        notifications (+) SetToBag({Notif(p.workerId, "payment_released", pid)})
                   /\ resp' = Response("rate", 200)
                   /\ UNCHANGED <<inflight, otpStore, users>>

FinalPayment(actor, pid) == FinalPaymentUpTo(actor, pid, MaxFinalPayments)

\* .limit(200)
PageCap == 200

\* Transaction.find({ $or: [{ fromUserId: me }, { toUserId: me }] }): the ids found,
\* scanned from the last inserted entry back
FoundIds(me) ==
  SelectSeq([ i \in 1..Len(ledger) |-> Len(ledger) + 1 - i ],
            LAMBDA i : ledger[i].fromUserId = Some(me) \/ ledger[i].toUserId = Some(me))

\* .sort({ createdAt: -1 })
NewestFirst(ids) == SortSeq(ids, LAMBDA i, j : ledger[i].createdAt > ledger[j].createdAt)

\* no limit
LimitMut(ids, n) == ids

\* .limit(n)
Limit(ids, n) == SubSeq(ids, 1, IF Len(ids) < n THEN Len(ids) ELSE n)

\* txns.map((t) => ({ id, type, amount, status, projectId, fromUser, toUser, createdAt }))
FormatTxn(i) ==
  [ id |-> i, type |-> ledger[i].type, amount |-> ledger[i].amount, status |-> ledger[i].status,
    projectId |-> ledger[i].escrowProjectId, fromUser |-> ledger[i].fromUserId,
    toUser |-> ledger[i].toUserId, createdAt |-> ledger[i].createdAt ]

\* the response of GET /transactions to the user me
Listing(me, page) == [ op |-> "list-transactions", code |-> 200, me |-> me, body |-> page ]

\* GET /transactions that deletes the ledger
ListTransactionsMut(me) ==
  LET ids == Limit(NewestFirst(FoundIds(me)), PageCap) IN
  /\ inflight = <<>>
  /\ resp' = Listing(me, [ k \in 1..Len(ids) |-> FormatTxn(ids[k]) ])
  /\ ledger' = <<>>
  /\ UNCHANGED <<projects, reviews, notifications, cards, clock, inflight, otpStore, users>>

\* GET /transactions
ListTransactions(me) ==
  LET ids == Limit(NewestFirst(FoundIds(me)), PageCap) IN
  /\ inflight = <<>>
  /\ resp' = Listing(me, [ k \in 1..Len(ids) |-> FormatTxn(ids[k]) ])
  /\ UNCHANGED <<projects, ledger, reviews, notifications, cards, clock, inflight, otpStore, users>>

(***************************************************************************)
(* Request bodies.                                                         *)
(***************************************************************************)
OfferBody(w, title, budget, deadline) ==
  [ workerId |-> w, title |-> title, budget |-> budget, deadline |-> deadline ]

GoodTitle == Some(<<" ", "a", " ">>)

\* well-formed offers, and offers with one field missing or malformed
CreateBodies(w, budgets) ==
  { OfferBody(Some(w), GoodTitle, b, Some(7)) : b \in budgets }
    \cup { OfferBody(None, GoodTitle, Some(5), Some(7)) }
    \cup { OfferBody(Some(w), t, Some(5), Some(7)) : t \in TitleInputs }
    \cup { OfferBody(Some(w), GoodTitle, Some(5), d) : d \in DeadlineInputs }

AcceptBodies(agreed) ==
  { [ agreedBudget |-> b, agreedDeadline |-> None, agreedTimeline |-> None ] : b \in agreed }
    \cup { [ agreedBudget |-> None, agreedDeadline |-> d, agreedTimeline |-> Some(<<" ", "w">>) ]
             : d \in AgreedDeadlineInputs }

ProgressBodies ==
  { [ progressPercent |-> n, milestones |-> None ] : n \in ProgressInputs }
    \cup { [ progressPercent |-> None, milestones |-> m ] : m \in MilestoneInputs }
    \cup { [ progressPercent |-> None, milestones |-> None ] }

RateBodies(ratings) ==
  { [ rating |-> r, review |-> None ] : r \in ratings }
    \cup { [ rating |-> Some(5), review |-> Some(<<"g", " ">>) ] }

\* project ids a request may name: the stored ones, or an id that is not stored
UnknownPid == Len(projects) + 1

Stored == DOMAIN projects

NoAcceptBody == [ agreedBudget |-> None, agreedDeadline |-> None, agreedTimeline |-> None ]

NoProgressBody == [ progressPercent |-> None, milestones |-> None ]

NoRateBody == [ rating |-> None, review |-> None ]

NextCreate ==
  \E pair \in OfferPairs : \E b \in CreateBodies(pair[2], BudgetInputs) :
    CreateOffer(pair[1], b, MaxProjects)

NextAccept ==
  \E a \in Users :
    \/ \E pid \in Stored : \E b \in AcceptBodies(AgreedBudgetInputs) : Accept(a, pid, b)
    \/ Accept(a, UnknownPid, NoAcceptBody)

NextReject == \E a \in Users : \E pid \in Stored \cup {UnknownPid} : Reject(a, pid)

NextAdvance == \E a \in Users : \E pid \in Stored \cup {UnknownPid} : AdvancePayment(a, pid)

NextProgress ==
  \E a \in Users :
    \/ \E pid \in Stored : \E b \in ProgressBodies : ProgressUpdate(a, pid, b)
    \/ ProgressUpdate(a, UnknownPid, NoProgressBody)

NextComplete == \E a \in Users : \E pid \in Stored \cup {UnknownPid} : Complete(a, pid)

NextFinal == \E a \in Users : \E pid \in Stored \cup {UnknownPid} : FinalPayment(a, pid)

NextRate ==
  \E a \in Users :
    \/ \E pid \in Stored : \E b \in RateBodies(RatingInputs) : Rate(a, pid, b)
    \/ Rate(a, UnknownPid, NoRateBody)

NextList == \E me \in Users : ListTransactions(me)

Next ==
  \/ NextCreate
  \/ NextAccept
  \/ NextReject
  \/ NextAdvance
  \/ NextProgress
  \/ NextComplete
  \/ NextFinal
  \/ NextRate
  \/ NextList

Spec == Init /\ [][Next]_vars

(***************************************************************************)
(* Several projects, of which two may have the same worker, with one       *)
(* well-formed body per command: the reviews and the aggregate rating.     *)
(***************************************************************************)
AggCreate ==
  \E pair \in OfferPairsAgg :
    CreateOffer(pair[1], OfferBody(Some(pair[2]), GoodTitle, Some(10000), Some(7)), MaxProjectsAgg)

\* the requests come from the two parties of the project
Parties(pid) == {projects[pid].clientId, projects[pid].workerId}

AggAccept == \E pid \in Stored : \E a \in Parties(pid) : Accept(a, pid, NoAcceptBody)

AggAdvance == \E pid \in Stored : \E a \in Parties(pid) : AdvancePayment(a, pid)

AggComplete == \E pid \in Stored : \E a \in Parties(pid) : Complete(a, pid)

AggFinal == \E pid \in Stored : \E a \in Parties(pid) : FinalPayment(a, pid)

AggRate ==
  \E pid \in Stored : \E a \in Parties(pid) : \E r \in RatingInputsAgg :
    Rate(a, pid, [ rating |-> r, review |-> None ])

NextAgg ==
  \/ AggCreate
  \/ AggAccept
  \/ AggAdvance
  \/ AggComplete
  \/ AggFinal
  \/ AggRate

SpecAgg == Init /\ [][NextAgg]_vars

(***************************************************************************)
(* One project whose final payment is repeated until its client has more   *)
(* ledger entries than one page of GET /transactions holds.                *)
(***************************************************************************)
ListCreate ==
  \E pair \in OfferPairsList :
    CreateOffer(pair[1], OfferBody(Some(pair[2]), GoodTitle, Some(10000), Some(7)), MaxProjects)

ListAccept == \E pid \in Stored : Accept(projects[pid].workerId, pid, NoAcceptBody)

ListAdvance == \E pid \in Stored : AdvancePayment(projects[pid].clientId, pid)

ListComplete == \E pid \in Stored : Complete(projects[pid].workerId, pid)

ListFinal == \E pid \in Stored : FinalPaymentUpTo(projects[pid].clientId, pid, MaxFinalsList)

ListRate ==
  \E pid \in Stored : Rate(projects[pid].clientId, pid, [ rating |-> Some(5), review |-> None ])

NextListing ==
  \/ ListCreate
  \/ ListAccept
  \/ ListAdvance
  \/ ListComplete
  \/ ListFinal
  \/ ListRate
  \/ NextList

SpecList == Init /\ [][NextListing]_vars

(***************************************************************************)
(* Requests that interleave.  A handler is suspended at each await; a step *)
(* is one database operation together with the synchronous code that runs  *)
(* when its await resumes.  A request in flight keeps the document it read *)
(* (snap) and the document as it has changed it in memory (doc).           *)
(***************************************************************************)
Slots == 1..MaxInflight

Idle == [ pc |-> "idle" ]

InitRace ==
  /\ projects = <<>>
  /\ ledger = <<>>
  /\ reviews = <<>>
  /\ notifications = EmptyBag
  /\ cards = [ u \in Users |-> IF u \in CardHolders THEN Some(NewCard) ELSE None ]
  /\ clock = 1
  /\ resp = Response("none", 0)
  /\ inflight = [ s \in Slots |-> Idle ]
  /\ otpStore = NoOtps
  /\ users = {}

Request(op, actor, pid, body, snap, doc, pc) ==
  [ op |-> op, actor |-> actor, pid |-> pid, body |-> body, snap |-> snap, doc |-> doc,
    pc |-> pc, card |-> None, agg |-> None ]

\* the status the handler answers with after findById
CheckOf(op, p, actor, body) ==
  CASE op = "accept" -> AcceptCheck(p, actor)
    [] op = "reject" -> RejectCheck(p, actor)
    [] op = "advance-payment" -> AdvanceCheck(p, actor)
    [] op = "progress-update" -> ProgressCheck(p, actor)
    [] op = "complete" -> CompleteCheck(p, actor)
    [] op = "final-payment" -> FinalCheck(p, actor)
    [] op = "rate" -> RateCheck(p, actor, body)

\* the document after the synchronous code that follows the checks
FirstDoc(op, p, body, now) ==
  CASE op = "accept" -> AcceptDoc(p, body, now)
    [] op = "reject" -> RejectDoc(p)
    [] op = "progress-update" -> ProgressDoc(p, body)
    [] op = "complete" -> CompleteDoc(p)
    [] OTHER -> p

\* the first database write of the handler
FirstWrite(op) ==
  CASE op \in {"advance-payment", "final-payment"} -> "txn"
    [] op = "rate" -> "review"
    [] OTHER -> "save"

\* the notification the handler sends before it responds
NotifOf(r) ==
  CASE r.op = "accept" -> SetToBag({Notif(r.snap.clientId, "project_accepted", r.pid)})
    [] r.op = "reject" -> SetToBag({Notif(r.snap.clientId, "project_rejected", r.pid)})
    [] r.op = "advance-payment" -> SetToBag({Notif(r.snap.workerId, "advance_paid", r.pid)})
    [] r.op = "progress-update" -> EmptyBag
    [] r.op = "complete" -> SetToBag({Notif(r.snap.clientId, "final_payment_required", r.pid)})
    [] r.op = "final-payment" -> SetToBag({Notif(r.snap.workerId, "final_payment_required", r.pid)})
    [] r.op = "rate" -> SetToBag({Notif(r.snap.workerId, "payment_released", r.pid)})

\* the requests that were accepted so far: those answered and those in flight
Accepted ==
  BagCardinality(notifications) + Cardinality({ s \in Slots : inflight[s].pc # "idle" })

\* POST /projects has no read before its write
RCreateUpTo(actor, body, maxProjects) ==
  /\ CreateCheck(body) = 201
  /\ Len(projects) < maxProjects
  /\ projects' = Append(projects,
                        NewProject(actor, Val(body.workerId), Val(body.title),
                                   Val(body.budget), Val(body.deadline)))
  /\ notifications' =
       notifications (+) SetToBag({Notif(Val(body.workerId), "project_offer", Len(projects) + 1)})
  /\ resp' = Response("create", 201)
  /\ UNCHANGED <<ledger, reviews, cards, clock, inflight, otpStore, users>>

RCreate(actor, body) == RCreateUpTo(actor, body, MaxProjects)

\* findById and the checks; a refused request responds at once
RBeginUpTo(s, op, actor, pid, body, maxRequests) ==
  /\ inflight[s].pc = "idle"
  /\ \A t \in Slots : t < s => inflight[t].pc # "idle"
  /\ Known(pid)
  /\ LET p == projects[pid]
         code == CheckOf(op, p, actor, body)
     IN  IF code # 200
         THEN /\ resp' = Response(op, code)
              /\ UNCHANGED <<projects, ledger, reviews, notifications, cards, clock, inflight, otpStore, users>>
         ELSE /\ Accepted < maxRequests
              /\ inflight' = [ inflight EXCEPT ![s] =
                                 Request(op, actor, pid, body, p, FirstDoc(op, p, body, clock),
                                         FirstWrite(op)) ]
              /\ clock' = IF op = "accept" THEN clock + 1 ELSE clock
              /\ UNCHANGED <<projects, ledger, reviews, notifications, cards, resp, otpStore, users>>

RBegin(s, op, actor, pid, body) == RBeginUpTo(s, op, actor, pid, body, MaxRequestsRace)

\* Transaction.create of advance-payment and final-payment, then the fields set after it
RPayTxn(s) ==
  LET r == inflight[s] IN
  /\ r.pc = "txn"
  /\ r.op \in {"advance-payment", "final-payment"}
  /\ ledger' = Append(ledger, IF r.op = "advance-payment"
                                THEN AdvanceTxn(r.snap, r.pid, r.actor, clock)
                                ELSE FinalTxn(r.snap, r.pid, r.actor, clock))
  /\ inflight' = [ inflight EXCEPT ![s].doc = IF r.op = "advance-payment"
                                                 THEN AdvanceDoc(r.snap, clock + 1)
                                                 ELSE FinalDoc(r.snap, clock + 1),
                                      ![s].pc = "save" ]
  /\ clock' = clock + 2
  /\ UNCHANGED <<projects, reviews, notifications, cards, resp, otpStore, users>>

\* WorkerReview.create of rate, then the fields set after it
RReview(s) ==
  LET r == inflight[s] IN
  /\ r.pc = "review"
  /\ reviews' = Append(reviews, RateReview(r.snap, r.pid, r.actor, r.body))
  /\ inflight' = [ inflight EXCEPT ![s].doc = RateDoc(r.snap, r.body, clock), ![s].pc = "save" ]
  /\ clock' = clock + 1
  /\ UNCHANGED <<projects, ledger, notifications, cards, resp, otpStore, users>>

\* project.save()
RSave(s) ==
  LET r == inflight[s] IN
  /\ r.pc = "save"
  /\ projects' = [ projects EXCEPT ![r.pid] = Save(@, r.snap, r.doc) ]
  /\ inflight' = [ inflight EXCEPT ![s].pc = IF r.op = "rate" THEN "commission" ELSE "finish" ]
  /\ UNCHANGED <<ledger, reviews, notifications, cards, clock, resp, otpStore, users>>

\* Transaction.create platform_commission
RCommission(s) ==
  LET r == inflight[s] IN
  /\ r.pc = "commission"
  /\ ledger' = Append(ledger, CommissionTxn(r.doc, r.pid, clock))
  /\ inflight' = [ inflight EXCEPT ![s].pc = "payout" ]
  /\ clock' = clock + 1
  /\ UNCHANGED <<projects, reviews, notifications, cards, resp, otpStore, users>>

\* Transaction.create worker_payout
RPayout(s) ==
  LET r == inflight[s] IN
  /\ r.pc = "payout"
  /\ ledger' = Append(ledger, PayoutTxn(r.doc, r.pid, clock))
  /\ inflight' = [ inflight EXCEPT ![s].pc = "card" ]
  /\ clock' = clock + 1
  /\ UNCHANGED <<projects, reviews, notifications, cards, resp, otpStore, users>>

\* UserCard.findOne
RCardFind(s) ==
  LET r == inflight[s] IN
  /\ r.pc = "card"
  /\ inflight' = [ inflight EXCEPT ![s].card = cards[r.snap.workerId],
                                      ![s].pc = IF IsSet(cards[r.snap.workerId])
                                                  THEN "reviews" ELSE "finish" ]
  /\ UNCHANGED <<projects, ledger, reviews, notifications, cards, clock, resp, otpStore, users>>

\* WorkerReview.find and the mean computed from it
RReviewsFind(s) ==
  LET r == inflight[s] IN
  /\ r.pc = "reviews"
  /\ inflight' = [ inflight EXCEPT ![s].agg = Some(Aggregate(reviews, r.snap.workerId)),
                                      ![s].pc = "cardsave" ]
  /\ UNCHANGED <<projects, ledger, reviews, notifications, cards, clock, resp, otpStore, users>>

\* card.save()
RCardSave(s) ==
  LET r == inflight[s]
      w == r.snap.workerId
  IN  /\ r.pc = "cardsave"
      /\ cards' = [ cards EXCEPT ![w] = Some(Save(Val(@), Val(r.card), Val(r.agg))) ]
      /\ inflight' = [ inflight EXCEPT ![s].pc = "finish" ]
      /\ UNCHANGED <<projects, ledger, reviews, notifications, clock, resp, otpStore, users>>

\* createNotification and the response
RFinish(s) ==
  LET r == inflight[s] IN
  /\ r.pc = "finish"
  /\ notifications' = notifications (+) NotifOf(r)
  /\ resp' = Response(r.op, 200)
  /\ inflight' = [ inflight EXCEPT ![s] = Idle ]
  /\ UNCHANGED <<projects, ledger, reviews, cards, clock, otpStore, users>>

RaceCreate ==
  \E pair \in OfferPairsRace :
    RCreate(pair[1], OfferBody(Some(pair[2]), GoodTitle, Some(10000), Some(7)))

\* the commands that change the status or move money
RaceOps == {"accept", "reject", "advance-payment", "complete", "final-payment", "rate"}

BodiesOf(op) ==
  CASE op = "accept" ->
         { [ NoAcceptBody EXCEPT !.agreedBudget = b ] : b \in AgreedBudgetInputsRace }
    [] op = "rate" -> { [ NoRateBody EXCEPT !.rating = r ] : r \in RatingInputsAgg }
    [] OTHER -> { NoRateBody }

RaceBegin ==
  \E s \in Slots : \E pid \in Stored : \E a \in Parties(pid) :
    \E op \in RaceOps : \E b \in BodiesOf(op) :
      RBegin(s, op, a, pid, b)

NextRace ==
  \/ RaceCreate
  \/ RaceBegin
  \/ \E s \in Slots : RPayTxn(s)
  \/ \E s \in Slots : RReview(s)
  \/ \E s \in Slots : RSave(s)
  \/ \E s \in Slots : RCommission(s)
  \/ \E s \in Slots : RPayout(s)
  \/ \E s \in Slots : RCardFind(s)
  \/ \E s \in Slots : RReviewsFind(s)
  \/ \E s \in Slots : RCardSave(s)
  \/ \E s \in Slots : RFinish(s)

SpecRace == InitRace /\ [][NextRace]_vars

(***************************************************************************)
(* Two projects of one worker whose rate requests interleave.  The requests *)
(* that lead a project to its final payment run one at a time, sent by the *)
(* party the handler requires.                                             *)
(***************************************************************************)
AllIdle == \A s \in Slots : inflight[s].pc = "idle"

OnlyRatesInFlight == \A s \in Slots : inflight[s].pc # "idle" => inflight[s].op = "rate"

\* the party the handler of op requires
RequiredActor(op, pid) ==
  IF op \in WorkerOps THEN projects[pid].workerId ELSE projects[pid].clientId

\* the second offer is made when the first project has had its final payment
RaceAggCreate ==
  /\ AllIdle
  /\ \A pid \in Stored : projects[pid].finalPaidAt # NoDate
  /\ \E pair \in OfferPairsRaceAgg :
       RCreateUpTo(pair[1], OfferBody(Some(pair[2]), GoodTitle, Some(10000), Some(7)),
                   MaxProjectsAgg)

\* each of accept, advance-payment, complete and final-payment is sent once
RaceAggSetup ==
  /\ AllIdle
  /\ \E pid \in Stored : \E op \in RaceOps \ {"reject", "rate"} :
       /\ op = "final-payment" => projects[pid].finalPaidAt = NoDate
       /\ RBeginUpTo(1, op, RequiredActor(op, pid), pid, NoAcceptBody, MaxRequestsRaceAgg)

RaceAggRate ==
  /\ OnlyRatesInFlight
  /\ \E s \in Slots : \E pid \in Stored : \E b \in BodiesOf("rate") :
       RBeginUpTo(s, "rate", RequiredActor("rate", pid), pid, b, MaxRequestsRaceAgg)

NextRaceAgg ==
  \/ RaceAggCreate
  \/ RaceAggSetup
  \/ RaceAggRate
  \/ \E s \in Slots : RPayTxn(s)
  \/ \E s \in Slots : RReview(s)
  \/ \E s \in Slots : RSave(s)
  \/ \E s \in Slots : RCommission(s)
  \/ \E s \in Slots : RPayout(s)
  \/ \E s \in Slots : RCardFind(s)
  \/ \E s \in Slots : RReviewsFind(s)
  \/ \E s \in Slots : RCardSave(s)
  \/ \E s \in Slots : RFinish(s)

SpecRaceAgg == InitRace /\ [][NextRaceAgg]_vars

(***************************************************************************)
(* Requests in which an awaited operation throws.  Every handler body is    *)
(* one try block whose catch answers 500: the writes made before the       *)
(* throwing await stay, the later ones are not made.                       *)
(***************************************************************************)
DbNow ==
  [ projects |-> projects, ledger |-> ledger, reviews |-> reviews,
    notifications |-> notifications, cards |-> cards, clock |-> clock ]

\* the database before the first and after each awaited write of the handler, in
\* the order of the awaits; the last write is Notification.create
Stages(op, actor, pid, body) ==
  LET d0 == DbNow
      p == projects[pid]
      note == NotifOf([ op |-> op, snap |-> p, pid |-> pid ])
  IN  CASE op \in {"accept", "reject", "complete"} ->
             LET d1 == [ d0 EXCEPT !.projects[pid] = Save(p, p, FirstDoc(op, p, body, clock)),
                                   !.clock = IF op = "accept" THEN clock + 1 ELSE clock ]
                 d2 == [ d1 EXCEPT !.notifications = @ (+) note ]
             IN  << d0, d1, d2 >>
        [] op = "progress-update" ->
             << d0, [ d0 EXCEPT !.projects[pid] = Save(p, p, ProgressDoc(p, body)) ] >>
        [] op \in {"advance-payment", "final-payment"} ->
             LET d1 == [ d0 EXCEPT !.ledger = Append(@, IF op = "advance-payment"
                                                          THEN AdvanceTxn(p, pid, actor, clock)
                                                          ELSE FinalTxn(p, pid, actor, clock)),
                                   !.clock = clock + 1 ]
                 d2 == [ d1 EXCEPT !.projects[pid] = Save(p, p, IF op = "advance-payment"
                                                                  THEN AdvanceDoc(p, clock + 1)
                                                                  ELSE FinalDoc(p, clock + 1)),
                                   !.clock = clock + 2 ]
                 d3 == [ d2 EXCEPT !.notifications = @ (+) note ]
             IN  << d0, d1, d2, d3 >>
        [] op = "rate" ->
             LET doc == RateDoc(p, body, clock)
                 d1 == [ d0 EXCEPT !.reviews = Append(@, RateReview(p, pid, actor, body)) ]
                 d2 == [ d1 EXCEPT !.projects[pid] = Save(p, p, doc), !.clock = clock + 1 ]
                 d3 == [ d2 EXCEPT !.ledger = Append(@, CommissionTxn(doc, pid, clock + 1)),
                                   !.clock = clock + 2 ]
                 d4 == [ d3 EXCEPT !.ledger = Append(@, PayoutTxn(doc, pid, clock + 2)),
                                   !.clock = clock + 3 ]
                 d5 == [ d4 EXCEPT !.cards = UpdateCard(@, d1.reviews, p.workerId) ]
                 d6 == [ d5 EXCEPT !.notifications = @ (+) note ]
             IN  << d0, d1, d2, d3, d4, d5, d6 >>

\* the await that calls Notification.create is the last one of the handler
NotifyAwait(op, actor, pid, body) == Len(Stages(op, actor, pid, body)) - 1

\* the k-th awaited write of the handler throws: catch (err) { res.status(500) }
HandlerFails(op, actor, pid, body, k) ==
  /\ inflight = <<>>
  /\ Known(pid)
  /\ CheckOf(op, projects[pid], actor, body) = 200
  /\ k \in 1..(Len(Stages(op, actor, pid, body)) - 1)
  /\ k > 1 => Len(ledger) + Len(reviews) < MaxWritesFail
  /\ LET d == Stages(op, actor, pid, body)[k] IN
       /\ projects' = d.projects
       /\ ledger' = d.ledger
       /\ reviews' = d.reviews
       /\ notifications' = d.notifications
       /\ cards' = d.cards
       /\ clock' = d.clock
  /\ resp' = Response(op, 500)
  /\ UNCHANGED <<inflight, otpStore, users>>

\* await promise: a rejection is thrown into the handler's try block
Awaited(rejected) == rejected

\* promise.catch((err) => console.error(...)): a rejection is logged and not thrown
Logged(rejected) == FALSE

\* POST /projects in which EscrowProject.create throws
CreateFails(actor, body) ==
  /\ inflight = <<>>
  /\ CreateCheck(body) = 201
  /\ resp' = Response("create", 500)
  /\ UNCHANGED <<projects, ledger, reviews, notifications, cards, clock, inflight, otpStore, users>>

\* POST /projects in which Notification.create, the offer email or the push may fail
CreateOfferDelivery(actor, body, maxProjects, notifRejected, emailRejected, pushRejected) ==
  /\ inflight = <<>>
  /\ CreateCheck(body) = 201
  /\ Len(projects) < maxProjects
  /\ projects' = Append(projects,
                        NewProject(actor, Val(body.workerId), Val(body.title),
                                   Val(body.budget), Val(body.deadline)))
  /\ IF Awaited(notifRejected)
     THEN /\ resp' = Response("create", 500)
          /\ UNCHANGED notifications
     ELSE /\ notifications' =
               notifications (+) SetToBag({Notif(Val(body.workerId), "project_offer", Len(projects) + 1)})
          /\ resp' = Response("create", IF Logged(emailRejected) \/ Logged(pushRejected)
                                          THEN 500 ELSE 201)
  /\ UNCHANGED <<ledger, reviews, cards, clock, inflight, otpStore, users>>

FailBody == OfferBody(Some("u2"), GoodTitle, Some(10000), Some(7))

FailOps == RaceOps \cup {"progress-update"}

FailBodiesOf(op) ==
  CASE op = "accept" -> { NoAcceptBody }
    [] op = "rate" -> { [ NoRateBody EXCEPT !.rating = Some(5) ] }
    [] op = "progress-update" -> { [ NoProgressBody EXCEPT !.progressPercent = Some(30) ] }
    [] OTHER -> { NoRateBody }

FailCreate ==
  \/ CreateFails("u1", FailBody)
  \/ \E n, e, q \in BOOLEAN : CreateOfferDelivery("u1", FailBody, MaxProjects, n, e, q)

FailAccept == \E pid \in Stored : \E a \in Parties(pid) : Accept(a, pid, NoAcceptBody)

FailReject == \E pid \in Stored : \E a \in Parties(pid) : Reject(a, pid)

FailAdvance == \E pid \in Stored : \E a \in Parties(pid) : AdvancePayment(a, pid)

FailProgress ==
  \E pid \in Stored : \E a \in Parties(pid) : \E b \in FailBodiesOf("progress-update") :
    ProgressUpdate(a, pid, b)

FailComplete == \E pid \in Stored : \E a \in Parties(pid) : Complete(a, pid)

FailFinal == \E pid \in Stored : \E a \in Parties(pid) : FinalPayment(a, pid)

FailRate ==
  \E pid \in Stored : \E a \in Parties(pid) : \E b \in FailBodiesOf("rate") : Rate(a, pid, b)

FailThrow ==
  \E pid \in Stored : \E a \in Parties(pid) : \E op \in FailOps : \E b \in FailBodiesOf(op) :
    \E k \in 1..6 : HandlerFails(op, a, pid, b, k)

NextFail ==
  \/ FailCreate
  \/ FailAccept
  \/ FailReject
  \/ FailAdvance
  \/ FailProgress
  \/ FailComplete
  \/ FailFinal
  \/ FailRate
  \/ FailThrow

SpecFail == Init /\ [][NextFail]_vars

(***************************************************************************)
(* Signup verification: POST /send-otp and POST /signup with the in-memory *)
(* otpStore.  The clock counts units of five minutes here.  users is the   *)
(* User collection: the accounts that signed up.                           *)
(***************************************************************************)
\* const OTP_EXPIRY_MS = 10 * 60 * 1000, in units of five minutes
OTP_EXPIRY_MS == 2

\* String(Math.floor(100000 + Math.random() * 900000))
Code(d) == [ i \in 1..6 |-> d ]

generateOtp == { Code("1"), Code("2") }

EmailInputs == { None, Some(<<" ", "A", "@", "x">>), Some(<<"a", "x">>) }

PhoneInputs ==
  { None, Some(<<"5", "5", "5", "-", "0", "1", "0", "0", "0", "0", "0">>), Some(<<"5", "5">>) }

OtpInputs == { None, Some(Code("1")), Some(Code("2")) }

UsernameInputs == { Some(<<" ", "B", "o", "b">>), Some(<<"a", "l", "i">>) }

\* !s on an optional string: null, undefined and '' are falsy
Blank(o) == ~IsSet(o) \/ Val(o) = <<>>

LowerOf(c) ==
  CASE c = "A" -> "a"
    [] c = "B" -> "b"
    [] c = "X" -> "x"
    [] OTHER -> c

\* String.prototype.toLowerCase
ToLowerCase(s) == [ i \in DOMAIN s |-> LowerOf(s[i]) ]

\* String.prototype.includes for one character
Includes(s, c) == \E i \in DOMAIN s : s[i] = c

Digits == { "0", "1", "2", "3", "4", "5", "6", "7", "8", "9" }

\* /^[a-z0-9_.]+$/.test(s)
UsernameChars == { "a", "b", "i", "l", "o", "x", "_", "." } \cup Digits

\* validatePhoneNumber: the digits of the number, 10 to 15 of them, after a +
validatePhoneNumber(phone) ==
  LET cleaned == SelectSeq(phone, LAMBDA c : c \in Digits) IN
  IF Len(cleaned) < 10 \/ Len(cleaned) > 15
  THEN [ valid |-> FALSE, cleaned |-> <<>> ]
  ELSE [ valid |-> TRUE, cleaned |-> <<"+">> \o cleaned ]

\* sendEmail: a failure of the provider is caught and returned
sendEmail(delivered) == [ sent |-> delivered ]

\* the result of an awaited sender: a returned { sent } or a thrown error
Returned(sent) == [ threw |-> FALSE, sent |-> sent ]

Thrown == [ threw |-> TRUE, sent |-> FALSE ]

\* sendOtpEmail: throws when the email was not sent
sendOtpEmail(delivered) == IF ~sendEmail(delivered).sent THEN Thrown ELSE Returned(TRUE)

\* sendOtpSms: without a Twilio client the code is logged and reported as sent
sendOtpSms(configured, delivered) ==
  IF ~configured THEN Returned(TRUE) ELSE Returned(delivered)

\* otpStore.set(key, entry)
Put(store, key, entry) ==
  [ k \in DOMAIN store \cup {key} |-> IF k = key THEN entry ELSE store[k] ]

\* otpStore.delete(key)
Delete(store, key) == [ k \in DOMAIN store \ {key} |-> store[k] ]

OtpEntry(otp, now, type) == [ otp |-> otp, expiresAt |-> now + OTP_EXPIRY_MS, type |-> type ]

Answer(op, code, error) == [ op |-> op, code |-> code, error |-> error ]

\* User.findOne({ email }) and User.findOne({ phone })
Registered(type, key) == \E u \in users : u.type = type /\ u.key = key

\* the key of the otpStore a body with one of email and phone is about
OtpKey(body) ==
  IF ~Blank(body.email) THEN Trim(ToLowerCase(Val(body.email)))
  ELSE validatePhoneNumber(Val(body.phone)).cleaned

OtpType(body) == IF ~Blank(body.email) THEN "email" ELSE "phone"

\* the checks of POST /send-otp before the code is generated
SendOtpCheck(body) ==
  IF Blank(body.email) /\ Blank(body.phone) THEN "Email or phone number is required"
  ELSE IF ~Blank(body.email) /\ ~Blank(body.phone)
  THEN "Please provide either email or phone, not both"
  ELSE IF ~Blank(body.email)
  THEN IF OtpKey(body) = <<>> \/ ~Includes(OtpKey(body), "@") THEN "Valid email is required"
       ELSE IF Registered("email", OtpKey(body)) THEN "Email already registered"
       ELSE "none"
  ELSE IF ~validatePhoneNumber(Val(body.phone)).valid THEN "Phone number must be 10-15 digits"
       ELSE IF Registered("phone", OtpKey(body)) THEN "Phone number already registered"
       ELSE "none"

\* POST /send-otp
SendOtp(body, otp, configured, delivered) ==
  /\ inflight = <<>>
  /\ IF SendOtpCheck(body) # "none"
     THEN /\ resp' = Answer("send-otp", 400, SendOtpCheck(body))
          /\ UNCHANGED otpStore
     ELSE LET key == OtpKey(body)
              set == Put(otpStore, key, OtpEntry(otp, clock, OtpType(body)))
              result == IF OtpType(body) = "email" THEN sendOtpEmail(delivered)
                        ELSE sendOtpSms(configured, delivered)
          IN  IF result.threw
              THEN /\ otpStore' = set
                   /\ resp' = Answer("send-otp", 500, "Unable to send OTP. Please try again later.")
              ELSE IF ~result.sent
              THEN /\ otpStore' = Delete(set, key)
                   /\ resp' = Answer("send-otp", 503,
                                      IF OtpType(body) = "email" THEN "Failed to send OTP email"
                                      ELSE "Twilio SMS error")
              ELSE /\ otpStore' = set
                   /\ resp' = Answer("send-otp", 200, "none")
  /\ UNCHANGED <<projects, ledger, reviews, notifications, cards, clock, inflight, users>>

\* username.trim().toLowerCase()
UsernameNorm(body) == ToLowerCase(Trim(Val(body.username)))

\* the checks of POST /signup before the otpStore is read
SignupCheck(body) ==
  IF Blank(body.name) \/ Trim(Val(body.name)) = <<>> THEN "Name is required"
  ELSE IF Blank(body.username) \/ Trim(Val(body.username)) = <<>> THEN "Username is required"
  ELSE IF Len(UsernameNorm(body)) < 3 THEN "Username must be at least 3 characters"
  ELSE IF \E i \in DOMAIN UsernameNorm(body) : UsernameNorm(body)[i] \notin UsernameChars
  THEN "Username can only contain letters, numbers, dots and underscores"
  ELSE IF Blank(body.email) /\ Blank(body.phone) THEN "Email or phone number is required"
  ELSE IF ~Blank(body.email) /\ ~Blank(body.phone)
  THEN "Please provide either email or phone, not both"
  ELSE IF Blank(body.password) \/ Len(Val(body.password)) < 6
  THEN "Password must be at least 6 characters"
  ELSE IF Blank(body.otp) \/ Len(Val(body.otp)) # 6 THEN "Valid 6-digit OTP is required"
  ELSE IF ~Blank(body.email)
  THEN IF ~Includes(OtpKey(body), "@") THEN "Valid email is required" ELSE "none"
  ELSE IF ~validatePhoneNumber(Val(body.phone)).valid THEN "Phone number must be 10-15 digits"
       ELSE "none"

NotSent == "OTP expired or not sent. Please request a new OTP."

\* POST /signup
Signup(body) ==
  /\ inflight = <<>>
  /\ IF SignupCheck(body) # "none"
     THEN /\ resp' = Answer("signup", 400, SignupCheck(body))
          /\ UNCHANGED <<otpStore, users>>
     ELSE LET key == OtpKey(body)
              type == OtpType(body)
          IN  IF key \notin DOMAIN otpStore \/ otpStore[key].type # type
              THEN /\ resp' = Answer("signup", 400, NotSent)
                   /\ UNCHANGED <<otpStore, users>>
              ELSE IF clock > otpStore[key].expiresAt
              THEN /\ otpStore' = Delete(otpStore, key)
                   /\ resp' = Answer("signup", 400, "OTP expired. Please request a new OTP.")
                   /\ UNCHANGED users
              ELSE IF otpStore[key].otp # Trim(Val(body.otp))
              THEN /\ resp' = Answer("signup", 400, "Invalid OTP")
                   /\ UNCHANGED <<otpStore, users>>
              ELSE /\ otpStore' = Delete(otpStore, key)
                   /\ IF Registered(type, key)
                      THEN /\ resp' = Answer("signup", 400,
                                              IF type = "email" THEN "Email already registered"
                                              ELSE "Phone number already registered")
                           /\ UNCHANGED users
                      ELSE IF \E u \in users : u.username = UsernameNorm(body)
                      THEN /\ resp' = Answer("signup", 400, "Username already taken")
                           /\ UNCHANGED users
                      ELSE /\ users' = users \cup { [ username |-> UsernameNorm(body),
                                                       type |-> type, key |-> key ] }
                           /\ resp' = Answer("signup", 201, "none")
  /\ UNCHANGED <<projects, ledger, reviews, notifications, cards, clock, inflight>>

\* Date.now() between two requests
TimePasses ==
  /\ inflight = <<>>
  /\ clock < MaxClockOtp
  /\ clock' = clock + 1
  /\ UNCHANGED <<projects, ledger, reviews, notifications, cards, resp, inflight, otpStore, users>>

SendOtpBodies == { [ email |-> e, phone |-> p ] : e \in EmailInputs, p \in PhoneInputs }

GoodName == Some(<<"n">>)

GoodPassword == Some(<<"s", "e", "c", "r", "e", "t">>)

SignupBody(name, username, email, phone, password, otp) ==
  [ name |-> name, username |-> username, email |-> email, phone |-> phone,
    password |-> password, otp |-> otp ]

SignupBodies ==
  { SignupBody(GoodName, u, e, p, GoodPassword, o) :
      u \in UsernameInputs, e \in EmailInputs, p \in PhoneInputs, o \in OtpInputs }
    \cup { SignupBody(n, u, Some(<<"a", "@", "x">>), None, pw, o) :
             n \in { None, GoodName },
             u \in { None, Some(<<"a", "l">>), Some(<<"b", "!", "b">>), Some(<<"a", "l", "i">>) },
             pw \in { Some(<<"s">>), GoodPassword },
             o \in { Some(<<"1", "2">>), Some(Code("1")) } }

NextSendOtp ==
  \E body \in SendOtpBodies : \E otp \in generateOtp : \E configured, delivered \in BOOLEAN :
    SendOtp(body, otp, configured, delivered)

NextSignup == \E body \in SignupBodies : Signup(body)

NextOtp ==
  \/ NextSendOtp
  \/ NextSignup
  \/ TimePasses

SpecOtp == Init /\ [][NextOtp]_vars

(***************************************************************************)
(* Claims on requests processed one at a time (Spec).                      *)
(***************************************************************************)
\* the step is the request op(a, pid, some body)
IsRequest(op, a, pid) ==
  /\ resp'.op = op
  /\ CASE op = "accept" -> \E b \in AcceptBodies(AgreedBudgetInputs) : Accept(a, pid, b)
       [] op = "reject" -> Reject(a, pid)
       [] op = "advance-payment" -> AdvancePayment(a, pid)
       [] op = "progress-update" -> \E b \in ProgressBodies : ProgressUpdate(a, pid, b)
       [] op = "complete" -> Complete(a, pid)
       [] op = "final-payment" -> FinalPayment(a, pid)
       [] op = "rate" -> \E b \in RateBodies(RatingInputs) : Rate(a, pid, b)
       [] OTHER -> FALSE

C1_Step ==
  \/ resp'.code = 403 /\ UNCHANGED db
  \/ \A pid \in DOMAIN projects : \A a \in Users :
       /\ \A op \in WorkerOps : ~(a # projects[pid].workerId /\ IsRequest(op, a, pid))
       /\ \A op \in ClientOps : ~(a # projects[pid].clientId /\ IsRequest(op, a, pid))

\* C1: accept, reject, progress-update and complete by an actor who is not the
\* project's worker, and advance-payment, final-payment and rate by an actor who
\* is not the project's client, answer 403 in every status and for every body,
\* and leave the projects, the ledger, the reviews, the notifications and the
\* cards unchanged.
C1_WrongPartyRefused == [][C1_Step]_vars

\* a rate request was refused with 403 on a project that was ready to be rated
C1_Witness ==
  /\ resp = Response("rate", 403)
  /\ \E pid \in DOMAIN projects :
       projects[pid].status = "completed" /\ projects[pid].finalPaidAt # NoDate

\* the ledger entries of a project, in the order they were appended
EntriesOf(pid) == SelectSeq(ledger, LAMBDA t : t.escrowProjectId = pid)

AmountsOf(pid, type) ==
  { ledger[i].amount : i \in { j \in DOMAIN ledger :
                                 ledger[j].escrowProjectId = pid /\ ledger[j].type = type } }

\* total as the specification defines it: agreedBudget ?? budget
SpecTotal(p) == Coalesce(p.agreedBudget, p.budget)

Released(p) == p.status = "completed_released"

\* C3: every completed_released project has advanceAmount = round(total * 0.10)
\* and finalAmount = round(total * 0.90), total being the budget locked at accept,
\* and its advance_payment and final_payment ledger entries carry these amounts.
C3_InstalmentsOfLockedTotal ==
  \A pid \in DOMAIN projects :
    LET p == projects[pid] IN
    Released(p) =>
      /\ p.advanceAmount = MathRound(SpecTotal(p), 10)
      /\ p.finalAmount = MathRound(SpecTotal(p) * 9, 10)
      /\ AmountsOf(pid, "advance_payment") = {MathRound(SpecTotal(p), 10)}
      /\ AmountsOf(pid, "final_payment") = {MathRound(SpecTotal(p) * 9, 10)}

\* C4: every completed_released project has platformCommissionAmount +
\* workerPayoutAmount = total, the commission being round(total * percent / 100)
\* and the payout total minus the commission, and its platform_commission and
\* worker_payout ledger entries carry these two amounts.
C4_ReleaseSplitsLockedTotal ==
  \A pid \in DOMAIN projects :
    LET p == projects[pid]
        c == MathRound(SpecTotal(p) * p.platformCommissionPercent, 100)
    IN  Released(p) =>
          /\ p.platformCommissionAmount + p.workerPayoutAmount = SpecTotal(p)
          /\ p.platformCommissionAmount = c
          /\ p.workerPayoutAmount = SpecTotal(p) - c
          /\ AmountsOf(pid, "platform_commission") = {c}
          /\ AmountsOf(pid, "worker_payout") = {SpecTotal(p) - c}

\* C5: on every project whose final payment was made, with a positive whole
\* total, advanceAmount + finalAmount = total.
C5_InstalmentsSumToTotal ==
  \A pid \in DOMAIN projects :
    LET p == projects[pid] IN
    (p.finalPaidAt # NoDate /\ SpecTotal(p) > 0) =>
      p.advanceAmount + p.finalAmount = SpecTotal(p)

\* C6: once agreedBudget is set, also to 0, the advance, the final payment and the
\* release compute their amounts from agreedBudget and not from the proposed budget.
C6_AmountsFromAgreedBudget ==
  \A pid \in DOMAIN projects :
    LET p == projects[pid] IN
    IsSet(p.agreedBudget) =>
      /\ p.advancePaidAt # NoDate => p.advanceAmount = AdvanceOf(Val(p.agreedBudget))
      /\ p.finalPaidAt # NoDate => p.finalAmount = FinalOf(Val(p.agreedBudget))
      /\ Released(p) =>
           /\ p.platformCommissionAmount = CommissionOf(Val(p.agreedBudget), CommissionPercent(p))
           /\ p.workerPayoutAmount = Val(p.agreedBudget) - p.platformCommissionAmount

\* the conditions under which the client's rating is acceptable
Rateable(p, body) ==
  /\ p.status = "completed"
  /\ p.finalPaidAt # NoDate
  /\ IsSet(body.rating)
  /\ Val(body.rating) \in 1..5

C7_Step ==
  resp'.op = "rate" =>
    \A pid \in DOMAIN projects : \A b \in RateBodies(RatingInputs) :
      Rate(projects[pid].clientId, pid, b) =>
        IF Rateable(projects[pid], b)
        THEN resp'.code = 200
        ELSE resp'.code = 400 /\ UNCHANGED db

\* C7: a rate request of the project's client succeeds only when the status is
\* completed, finalPaidAt is set and the rating is within 1..5; otherwise it
\* answers 400 and writes no review, no ledger entry, no project and no card.
C7_RateOnlyAfterFinalPayment == [][C7_Step]_vars

\* a rating was refused on a completed project whose final payment is not made
C7_Witness ==
  /\ resp = Response("rate", 400)
  /\ \E pid \in DOMAIN projects :
       projects[pid].status = "completed" /\ projects[pid].finalPaidAt = NoDate

\* the four ledger entries of the sequence with total t
FourEntries(pid, t) ==
  LET es == EntriesOf(pid) IN
  /\ Len(es) = 4
  /\ [ i \in 1..4 |-> es[i].type ] =
       << "advance_payment", "final_payment", "platform_commission", "worker_payout" >>
  /\ [ i \in 1..4 |-> es[i].amount ] =
       << MathRound(t, 10), MathRound(t * 9, 10), MathRound(t * 5, 100), t - MathRound(t * 5, 100) >>
  /\ t = 10000 => [ i \in 1..4 |-> es[i].amount ] = << 1000, 9000, 500, 9500 >>

\* C9: create offer, accept, advance-payment, complete, final-payment and rate,
\* each issued once with total t, end in completed_released with the four ledger
\* entries advance_payment round(0.1 t), final_payment round(0.9 t),
\* platform_commission round(0.05 t), worker_payout t - round(0.05 t), in this
\* order; right after advance-payment the project is in_progress at 50 percent.
C9_HappyPathLedger ==
  /\ resp = Response("advance-payment", 200) =>
       \E pid \in DOMAIN projects :
         /\ projects[pid].advancePaidAt = clock - 1
         /\ projects[pid].status = "in_progress"
         /\ projects[pid].progressPercent = 50
  /\ \A pid \in DOMAIN projects :
       LET p == projects[pid] IN
       (Released(p) /\ CountTxns(pid, "final_payment") = 1) => FourEntries(pid, SpecTotal(p))

\* the status the command requires of the project
Precondition(op) ==
  CASE op = "accept" -> {"offer_sent"}
    [] op = "reject" -> {"offer_sent"}
    [] op = "advance-payment" -> {"accepted", "pending_advance"}
    [] op = "complete" -> {"in_progress", "mid_level"}
    [] op = "final-payment" -> {"completed"}

RequiredParty(op, p) == IF op \in WorkerOps THEN p.workerId ELSE p.clientId

C10_Step ==
  \/ resp'.code = 400 /\ UNCHANGED db
  \/ \A pid \in DOMAIN projects :
       \A op \in {"accept", "reject", "advance-payment", "complete", "final-payment"} :
         ~ /\ projects[pid].status \notin Precondition(op)
           /\ IsRequest(op, RequiredParty(op, projects[pid]), pid)

\* C10: accept, reject, advance-payment, complete and final-payment issued by the
\* required party in a status outside the command's precondition answer 400 and
\* leave the projects, the ledger and the notifications unchanged.
C10_WrongStatusRefused == [][C10_Step]_vars

\* reject was refused on an accepted project, which is still accepted
C10_Witness ==
  /\ resp = Response("reject", 400)
  /\ \E pid \in DOMAIN projects : projects[pid].status = "accepted"

\* the changes of status the lifecycle allows
Edges ==
  { <<"offer_sent", "accepted">>, <<"offer_sent", "rejected">>, <<"accepted", "in_progress">>,
    <<"in_progress", "completed">>, <<"completed", "completed_released">> }

C12_Step ==
  \A pid \in DOMAIN projects :
    \/ projects'[pid].status = projects[pid].status
    \/ << projects[pid].status, projects'[pid].status >> \in Edges

\* C12: when requests are processed one at a time, the stored status of a project
\* changes only along offer_sent to accepted, offer_sent to rejected, accepted to
\* in_progress, in_progress to completed and completed to completed_released; no
\* command moves it backward, and rejected and completed_released are never left.
C12_StatusFollowsEdges == [][C12_Step]_vars

\* the rate request has moved a completed project to completed_released
C12_Witness ==
  /\ resp = Response("rate", 200)
  /\ \E pid \in DOMAIN projects : projects[pid].status = "completed_released"

C16_Step ==
  /\ Len(ledger') >= Len(ledger)
  /\ SubSeq(ledger', 1, Len(ledger)) = ledger
  /\ resp'.op = "list-transactions" => UNCHANGED db

\* C16: the ledger is append-only: every command leaves the Transaction entries
\* unchanged or adds new entries after them; no command changes a field of an
\* existing entry or removes an entry, and list-transactions changes nothing.
C16_LedgerAppendOnly == [][C16_Step]_vars

\* the transactions of a project with its four entries were listed
C16_Witness ==
  /\ resp.op = "list-transactions"
  /\ Len(resp.body) >= 2
  /\ Len(ledger) >= 4

C18_Step ==
  \A pid \in DOMAIN projects : \A b \in ProgressBodies :
    ( /\ resp'.op = "progress-update"
      /\ resp'.code = 200
      /\ ProgressUpdate(projects[pid].workerId, pid, b) ) =>
        LET first == projects'[pid]
            second == Save(first, first, ProgressDoc(first, b))
        IN  /\ second = first
            /\ IsSet(b.progressPercent) => second.progressPercent = Clamp(Val(b.progressPercent))
            /\ IsSet(b.milestones) => second.milestones = Val(b.milestones)

C19_ReservedStatusesUnreachable ==
  \A pid \in DOMAIN projects :
    /\ projects[pid].status \notin {"cancelled", "mid_level", "pending_advance"}
    /\ projects[pid].cancelledBy = None
    /\ projects[pid].cancelReason = <<>>
    /\ projects[pid].cancelledAt = NoDate

\* the worker has rejected an offer, and the project is rejected, not cancelled
C19_Witness ==
  /\ resp = Response("reject", 200)
  /\ \E pid \in DOMAIN projects : projects[pid].status = "rejected"

\* C20: in every reachable state the client and the worker of every project are
\* distinct users: create offer stores no project whose workerId is its clientId.
C20_ClientIsNotWorker ==
  \A pid \in DOMAIN projects : projects[pid].clientId # projects[pid].workerId

LockedTerms(p) == << p.agreedBudget, p.agreedDeadline, p.agreedTimeline, p.lockedAt >>

\* the body satisfies the conditions of create offer
ValidOffer(body) ==
  /\ IsSet(body.workerId)
  /\ IsSet(body.title)
  /\ \E i \in DOMAIN Val(body.title) : Val(body.title)[i] # " "
  /\ IsSet(body.budget)
  /\ Val(body.budget) > 0
  /\ IsSet(body.deadline)

\* a project as create offer leaves it
FreshOffer(p, actor, body) ==
  /\ p.status = "offer_sent"
  /\ p.clientId = actor
  /\ p.workerId = Val(body.workerId)
  /\ p.progressPercent = 0
  /\ LockedTerms(p) = << None, NoDate, <<>>, NoDate >>
  /\ << p.advanceAmount, p.finalAmount, p.platformCommissionAmount, p.workerPayoutAmount >>
       = << 0, 0, 0, 0 >>
  /\ << p.advancePaidAt, p.finalPaidAt, p.workerPayoutAt >> = << NoDate, NoDate, NoDate >>

\* a refused step is the step of no valid offer; any other create step is the
\* step of valid offers only, and stores the project
C21_Step ==
  resp'.op = "create" =>
    IF resp'.code = 400 /\ UNCHANGED db
    THEN \A pair \in OfferPairs : \A body \in CreateBodies(pair[2], BudgetInputs) :
           ValidOffer(body) => ~CreateOffer(pair[1], body, MaxProjects)
    ELSE \A pair \in OfferPairs : \A body \in CreateBodies(pair[2], BudgetInputs) :
           CreateOffer(pair[1], body, MaxProjects) =>
             /\ ValidOffer(body)
             /\ resp'.code = 201
             /\ Len(projects') = Len(projects) + 1
             /\ FreshOffer(projects'[Len(projects')], pair[1], body)
             /\ notifications' # notifications

\* C21: create offer succeeds only when workerId is given, title is non-empty
\* after trimming, budget is greater than 0 and deadline is present; otherwise it
\* answers 400 and creates no project and no notification; on success the new
\* project has status offer_sent, the actor as client, the given worker,
\* progressPercent 0, no locked terms and all money fields zero or unset.
C21_CreateValidates == [][C21_Step]_vars

\* an offer was refused and nothing is stored
C21_Witness ==
  /\ resp = Response("create", 400)
  /\ projects = <<>>
  /\ notifications = EmptyBag

NegotiatedTerms(p) == << p.title, p.description, p.budget, p.deadline >>

C22_Step ==
  \A pid \in DOMAIN projects : NegotiatedTerms(projects'[pid]) = NegotiatedTerms(projects[pid])

\* C22: title, description, budget and deadline of a project are set by create
\* offer and left unchanged by accept, reject, advance-payment, progress-update,
\* complete, final-payment and rate, whatever the payload.
C22_NegotiatedTermsKept == [][C22_Step]_vars

\* a released project that was accepted with an agreed budget other than its budget
C22_Witness ==
  \E pid \in DOMAIN projects :
    /\ projects[pid].status = "completed_released"
    /\ projects[pid].agreedBudget = Some(15)
    /\ projects[pid].budget = 5

\* num / den, den > 0, rounded to the nearest integer with halves away from zero
RoundHalfAway(num, den) ==
  IF num >= 0 THEN (2 * num + den) \div (2 * den) ELSE 0 - ((2 * (0 - num) + den) \div (2 * den))

\* C23: every amount the state machine computes (advanceAmount, finalAmount,
\* platformCommissionAmount) is the exact product rounded to a whole unit with
\* halves rounded away from zero, for every total that accept can lock, negative
\* agreedBudget values included, and workerPayoutAmount is a whole number.
C23_RoundsHalfAwayFromZero ==
  \A pid \in DOMAIN projects :
    LET p == projects[pid] IN
    /\ p.advancePaidAt # NoDate => p.advanceAmount = RoundHalfAway(Total(p), 10)
    /\ p.finalPaidAt # NoDate => p.finalAmount = RoundHalfAway(Total(p) * 9, 10)
    /\ Released(p) =>
         /\ p.platformCommissionAmount = RoundHalfAway(Total(p) * p.platformCommissionPercent, 100)
         /\ p.workerPayoutAmount \in Int

C24_OneFinalPayment ==
  \A pid \in DOMAIN projects : CountTxns(pid, "final_payment") <= 1

C24_FinalPaidAtKept ==
  \A pid \in DOMAIN projects :
    projects[pid].finalPaidAt # NoDate => projects'[pid].finalPaidAt = projects[pid].finalPaidAt

\* C24: with requests processed one at a time, final-payment succeeds at most
\* once per project: after a successful final-payment a further one is refused,
\* so the ledger holds at most one final_payment entry for a project and
\* finalPaidAt is never overwritten.
C24_FinalPaymentOnce == []C24_OneFinalPayment /\ [][C24_FinalPaidAtKept]_vars

\* the status of the project does not satisfy the precondition of the command
WrongStatus(op, p) ==
  CASE op = "progress-update" -> FALSE
    [] op = "rate" -> ~(p.status = "completed" /\ p.finalPaidAt # NoDate)
    [] OTHER -> p.status \notin Precondition(op)

\* a request on an unknown id answers 404
C25_NotFoundFirst ==
  \/ resp'.code = 404 /\ UNCHANGED db
  \/ \A a \in Users : \A op \in WorkerOps \cup ClientOps : ~IsRequest(op, a, UnknownPid)

\* a request by the wrong party in the wrong status answers 403
C25_AuthorizationSecond ==
  \/ resp'.code = 403
  \/ \A pid \in DOMAIN projects : \A a \in Users \ {RequiredParty(resp'.op, projects[pid])} :
       ~(WrongStatus(resp'.op, projects[pid]) /\ IsRequest(resp'.op, a, pid))

\* a rate request of the client in the wrong status with an invalid rating
\* answers the error of the status
C25_StatusBeforePayload ==
  resp'.op = "rate" =>
    \A pid \in DOMAIN projects : \A b \in RateBodies(RatingInputs) :
      ( /\ WrongStatus("rate", projects[pid])
        /\ ~(IsSet(b.rating) /\ Val(b.rating) \in 1..5)
        /\ Rate(projects[pid].clientId, pid, b) ) =>
          /\ resp'.code = 400
          /\ RateError(projects[pid], projects[pid].clientId, b) = "Rate only after final payment"

C25_Step ==
  resp'.op \in WorkerOps \cup ClientOps =>
    /\ C25_NotFoundFirst
    /\ C25_AuthorizationSecond
    /\ C25_StatusBeforePayload

\* C25: the checks of every transition are ordered not-found, authorization,
\* status precondition, payload validation: a request on an unknown project id
\* answers 404 for every actor; a request by the wrong party answers 403 also
\* when the status precondition fails; a rate request in the wrong status answers
\* the state error also when the rating is invalid.
C25_ChecksAreOrdered == [][C25_Step]_vars

\* a rate request was refused with 403 on a project that could not be rated yet
C25_Witness ==
  /\ resp = Response("rate", 403)
  /\ \E pid \in DOMAIN projects : projects[pid].status = "offer_sent"

\* the fields of a project that progress-update does not write
ProgressFrame(p) == [ f \in DOMAIN p \ {"progressPercent", "milestones"} |-> p[f] ]

C26_Step ==
  resp'.op = "progress-update" =>
    \A pid \in DOMAIN projects : \A b \in ProgressBodies :
      ProgressUpdate(projects[pid].workerId, pid, b) =>
        /\ resp'.code = 200
        /\ projects'[pid].progressPercent =
             IF IsSet(b.progressPercent)
             THEN (IF Val(b.progressPercent) < 0 THEN 0
                   ELSE IF Val(b.progressPercent) > 100 THEN 100 ELSE Val(b.progressPercent))
             ELSE projects[pid].progressPercent
        /\ projects'[pid].milestones =
             IF IsSet(b.milestones) THEN Val(b.milestones) ELSE projects[pid].milestones
        /\ ProgressFrame(projects'[pid]) = ProgressFrame(projects[pid])
        /\ UNCHANGED <<ledger, notifications, reviews, cards>>

C26_PercentInRange ==
  \A pid \in DOMAIN projects : projects[pid].progressPercent \in 0..100

\* C26: progress-update by the project's worker is accepted in every status, sets
\* progressPercent to the given value clamped into 0..100 when one is given,
\* replaces milestones when an array is given, and leaves status, locked terms,
\* money fields, rating, the ledger and the notifications unchanged;
\* progressPercent is within 0..100 in every reachable state.
C26_ProgressUpdateFrame == []C26_PercentInRange /\ [][C26_Step]_vars

\* the worker has updated the progress of a rejected project
C26_Witness ==
  /\ resp = Response("progress-update", 200)
  /\ \E pid \in DOMAIN projects :
       projects[pid].status = "rejected" /\ projects[pid].progressPercent = 100

(***************************************************************************)
(* Claims on GET /transactions with more than one page of entries          *)
(* (SpecList).                                                             *)
(***************************************************************************)
\* the ledger entries that user me sent or received
OwnIds(me) ==
  { i \in DOMAIN ledger : ledger[i].fromUserId = Some(me) \/ ledger[i].toUserId = Some(me) }

\* C17: list-transactions for user U returns only ledger entries whose fromUserId
\* or toUserId is U, sorted by creation time newest first, and never more than
\* 200 entries; when U has more than 200 such entries it returns the 200 newest.
C17_ListIsNewestPage ==
  resp.op = "list-transactions" =>
    LET b == resp.body
        listed == { b[k].id : k \in DOMAIN b }
    IN  /\ listed \subseteq OwnIds(resp.me)
        /\ Cardinality(listed) = Len(b)
        /\ \A k \in DOMAIN b :
             /\ b[k].createdAt = ledger[b[k].id].createdAt
             /\ b[k].fromUser = Some(resp.me) \/ b[k].toUser = Some(resp.me)
             /\ k < Len(b) => b[k].createdAt >= b[k + 1].createdAt
        /\ Len(b) <= 200
        /\ Cardinality(OwnIds(resp.me)) > 200 =>
             /\ Len(b) = 200
             /\ \A i \in OwnIds(resp.me) \ listed : ledger[i].createdAt <= b[200].createdAt

\* a user with more than 200 entries was answered with a page of 200
C17_Witness ==
  /\ resp.op = "list-transactions"
  /\ Cardinality(OwnIds(resp.me)) > 200
  /\ Len(resp.body) = 200

(***************************************************************************)
(* Claims on the aggregate rating (SpecAgg).                               *)
(***************************************************************************)
\* the projects of worker w whose rate request has succeeded
RatedProjects(w) ==
  { pid \in DOMAIN projects : projects[pid].workerId = w /\ Released(projects[pid]) }

RECURSIVE RatingSum(_, _)
RatingSum(w, n) ==
  IF n = 0 THEN 0
  ELSE (IF reviews[n].workerId = w THEN reviews[n].rating ELSE 0) + RatingSum(w, n - 1)

ReviewsOfProject(pid) == { i \in DOMAIN reviews : reviews[i].escrowProjectId = pid }

C2_AtMostOne ==
  \A pid \in DOMAIN projects :
    /\ Cardinality(ReviewsOfProject(pid)) <= 1
    /\ CountTxns(pid, "platform_commission") <= 1
    /\ CountTxns(pid, "worker_payout") <= 1

C2_WrittenOnce ==
  \A pid \in DOMAIN projects :
    projects[pid].ratedAt # NoDate =>
      /\ projects'[pid].ratedAt = projects[pid].ratedAt
      /\ projects'[pid].rating = projects[pid].rating

\* C2: in every execution, also when two rate requests for a project interleave
\* between their read and their writes, the project has at most one WorkerReview,
\* at most one platform_commission and at most one worker_payout ledger entry,
\* and rating and ratedAt are written only once.
C2_RateTakesEffectOnce == []C2_AtMostOne /\ [][C2_WrittenOnce]_vars

C11_NoAdvanceOnRejected ==
  \A pid \in DOMAIN projects :
    projects[pid].status = "rejected" => CountTxns(pid, "advance_payment") = 0

C11_StaysRejected ==
  \A pid \in DOMAIN projects :
    projects[pid].status = "rejected" =>
      /\ projects'[pid].status = "rejected"
      /\ CountTxns(pid, "advance_payment")' = 0

\* C11: rejected is terminal in every execution, also when requests on the
\* project interleave between reading the project and saving it: once the stored
\* status is rejected no later write changes it, and a rejected project has no
\* advance_payment ledger entry, now or later.
C11_RejectedIsTerminal == []C11_NoAdvanceOnRejected /\ [][C11_StaysRejected]_vars

\* the number of accept requests that were answered with success
AcceptSuccesses(pid) ==
  CopiesIn(Notif(projects[pid].clientId, "project_accepted", pid), notifications)

C13_OneSuccess == \A pid \in DOMAIN projects : AcceptSuccesses(pid) <= 1

C13_TermsKept ==
  \A pid \in DOMAIN projects :
    projects[pid].lockedAt # NoDate => LockedTerms(projects'[pid]) = LockedTerms(projects[pid])

\* C13: the locked terms are set once: in every execution, also when two accept
\* requests on an offer_sent project interleave between read and save,
\* agreedBudget, agreedDeadline, agreedTimeline and lockedAt are written by at
\* most one accept, and at most one accept request is answered with success.
C13_TermsLockedOnce == []C13_OneSuccess /\ [][C13_TermsKept]_vars

\* the fields that record the acceptance and the advance payment
HasAdvanceHistory(p) ==
  p.lockedAt # NoDate /\ IsSet(p.agreedBudget) /\ p.advancePaidAt # NoDate

\* the fields that record the final payment and the rating
HasReleaseHistory(p) ==
  /\ p.finalPaidAt # NoDate /\ p.workerPayoutAt # NoDate /\ p.ratedAt # NoDate
  /\ IsSet(p.rating) /\ Val(p.rating) \in 1..5

NoHistory(p) ==
  /\ p.lockedAt = NoDate /\ ~IsSet(p.agreedBudget) /\ p.advancePaidAt = NoDate
  /\ p.finalPaidAt = NoDate /\ p.workerPayoutAt = NoDate /\ p.ratedAt = NoDate
  /\ ~IsSet(p.rating)

C28_History ==
  \A pid \in DOMAIN projects :
    LET p == projects[pid] IN
    /\ p.status \in {"in_progress", "completed", "completed_released"} => HasAdvanceHistory(p)
    /\ p.status = "completed_released" => HasReleaseHistory(p)
    /\ p.status = "offer_sent" => NoHistory(p)

\* a reject whose save finds the document as the request read it rejects a
\* project without history, and a rejected project without history keeps none
C28_RejectedWithoutRace ==
  /\ \A s \in Slots :
       (/\ inflight[s].pc = "save"
        /\ inflight[s].op = "reject"
        /\ projects[inflight[s].pid] = inflight[s].snap
        /\ RSave(s))
         => (/\ projects'[inflight[s].pid].status = "rejected"
             /\ NoHistory(projects'[inflight[s].pid]))
  /\ \A pid \in DOMAIN projects :
       (/\ projects[pid].status = "rejected" /\ NoHistory(projects[pid])
        /\ projects'[pid].status = "rejected")
         => NoHistory(projects'[pid])

\* C28: the status implies its history in every reachable state, under any
\* interleaving of requests: a project in in_progress, completed or
\* completed_released has lockedAt, agreedBudget and advancePaidAt set; one in
\* completed_released also has finalPaidAt, workerPayoutAt and ratedAt set and a
\* rating within 1..5; one in offer_sent, or in rejected by a reject that no other
\* write raced with, has none of them set.
C28_StatusImpliesHistory == []C28_History /\ [][C28_RejectedWithoutRace]_vars

\* a complete that read the project before the rating was saved brings the
\* rated project back to completed
C28_Witness ==
  \E pid \in DOMAIN projects :
    /\ projects[pid].status = "completed"
    /\ projects[pid].ratedAt # NoDate
    /\ HasAdvanceHistory(projects[pid])

(***************************************************************************)
(* Claims on the rate requests of two projects that interleave             *)
(* (SpecRaceAgg).                                                          *)
(***************************************************************************)
\* every project was rated at most once
RatedOnce == \A pid \in DOMAIN projects : Cardinality(ReviewsOfProject(pid)) <= 1

\* C29: when two rate requests for two different projects of the same worker
\* run concurrently, then once both have finished the worker's card has
\* ratingCount equal to the number of the worker's reviews and rating equal to
\* their mean: no recomputation result is lost.
C29_CardIsMeanAfterConcurrentRates ==
  (AllIdle /\ RatedOnce) =>
    \A w \in Users :
      (IsSet(cards[w]) /\ Len(WorkerSeq(reviews, w)) > 0) =>
        /\ Val(cards[w]).ratingCount = Len(WorkerSeq(reviews, w))
        /\ Val(cards[w]).rating.num * Len(WorkerSeq(reviews, w))
             = RatingSum(w, Len(reviews)) * Val(cards[w]).rating.den

(***************************************************************************)
(* Claims on requests in which an awaited operation throws (SpecFail).     *)
(***************************************************************************)
C14_Paired ==
  \A pid \in DOMAIN projects :
    CountTxns(pid, "platform_commission") = CountTxns(pid, "worker_payout")

C14_AtMostTwo == Len(ledger') <= Len(ledger) + 2

\* C14: platform_commission and worker_payout entries are paired: in every state
\* between requests, also after a request in which a database write failed, each
\* project has as many platform_commission as worker_payout entries, and no
\* request appends more than two ledger entries.
C14_CommissionPairedWithPayout == []C14_Paired /\ [][C14_AtMostTwo]_vars

\* the handlers that notify, with the party and the body of their request
NotifyingOps == {"accept", "reject", "advance-payment", "complete", "final-payment", "rate"}

C15_Step ==
  /\ \A n, e, q \in BOOLEAN :
       ((n \/ e \/ q) /\ CreateOfferDelivery("u1", FailBody, MaxProjects, n, e, q)) =>
         resp'.code = 201 /\ Len(projects') = Len(projects) + 1
  /\ \A pid \in DOMAIN projects : \A op \in NotifyingOps : \A b \in FailBodiesOf(op) :
       LET a == RequiredParty(op, projects[pid]) IN
       HandlerFails(op, a, pid, b, NotifyAwait(op, a, pid, b)) =>
         /\ resp'.code = 200
         /\ projects'[pid] # projects[pid]

\* C15: a failure of notification delivery never fails a transition: when the
\* in-app notification write, the offer email or the push send fails during
\* create offer, accept, reject, advance-payment, complete, final-payment or
\* rate, the caller receives the success response and the state change stands.
C15_NotificationFailureIsSilent == [][C15_Step]_vars

\* a ledger entry of a payment has its date recorded on the project
C27_Recorded ==
  \A pid \in DOMAIN projects :
    LET p == projects[pid] IN
    /\ CountTxns(pid, "advance_payment") > 0 =>
         (p.advancePaidAt # NoDate /\ p.status \notin {"offer_sent", "accepted"})
    /\ CountTxns(pid, "final_payment") > 0 => p.finalPaidAt # NoDate

\* a payment request adds no entry beside one the project does not record
C27_NoSecondEntry ==
  \A pid \in DOMAIN projects :
    /\ (CountTxns(pid, "advance_payment") > 0 /\ projects[pid].advancePaidAt = NoDate) =>
         CountTxns(pid, "advance_payment")' = CountTxns(pid, "advance_payment")
    /\ (CountTxns(pid, "final_payment") > 0 /\ projects[pid].finalPaidAt = NoDate) =>
         CountTxns(pid, "final_payment")' = CountTxns(pid, "final_payment")

\* C27: no orphan ledger entries: in every state between requests, also when a
\* database write fails in the middle of a request, a project with an
\* advance_payment entry has advancePaidAt set and a status past accepted, and a
\* project with a final_payment entry has finalPaidAt set; so a retried payment
\* never adds a second entry for a payment the project does not record.
C27_NoOrphanEntries == []C27_Recorded /\ [][C27_NoSecondEntry]_vars

(***************************************************************************)
(* Claims on the signup verification (SpecOtp).                            *)
(***************************************************************************)
\* the provider did not deliver the code the request generated
DeliveryFailed(body, configured, delivered) ==
  /\ SendOtpCheck(body) = "none"
  /\ IF OtpType(body) = "email" THEN ~delivered ELSE configured /\ ~delivered

\* a send-otp whose delivery fails answers with an error and leaves no entry
C30_FailureClearsStore ==
  resp'.op = "send-otp" =>
    \A body \in SendOtpBodies : \A otp \in generateOtp : \A configured, delivered \in BOOLEAN :
      (DeliveryFailed(body, configured, delivered) /\ SendOtp(body, otp, configured, delivered))
        => (resp'.code >= 400 /\ OtpKey(body) \notin DOMAIN otpStore')

\* a well-formed signup for a key without an entry is refused as not sent
C30_NoEntryNoSignup ==
  resp'.op = "signup" =>
    \A body \in SignupBodies :
      (/\ SignupCheck(body) = "none"
       /\ OtpKey(body) \notin DOMAIN otpStore
       /\ Signup(body))
        => (resp' = Answer("signup", 400, NotSent) /\ UNCHANGED <<otpStore, users>>)

\* C30: send-otp leaves no usable code behind on a delivery failure: whenever
\* sending the OTP fails, by email or by SMS, the request reports a failure and
\* the OTP store holds no entry for that email or phone afterwards, so a later
\* signup for that key is rejected as 'OTP expired or not sent' until a new
\* send-otp succeeds.
C30_NoCodeAfterFailedDelivery == [][C30_FailureClearsStore /\ C30_NoEntryNoSignup]_vars

====
